---- MODULE Spec2Model ----
(***************************************************************************)
(* A model of make_latex_tables.py: the LaTeX escaping of a cell (esc),    *)
(* the rendering of a DataFrame as a booktabs tabular (df_to_tabular) and  *)
(* the batch loop that converts every matched file (main).                 *)
(*                                                                         *)
(* A Python str is a sequence of one-character strings.  A cell value is a *)
(* record: [kind |-> "str", s |-> <chars>], [kind |-> "nan"],              *)
(* [kind |-> "int", n |-> n] or [kind |-> "float", m |-> m], where a float *)
(* m stands for the number m / 100000 (five decimal digits, m >= 0).       *)
(***************************************************************************)
EXTENDS Integers, Sequences, FiniteSets, TLC

VARIABLES
    \* esc, one call
    ex, es, ek, epc, eret,
    \* df_to_tabular, one call
    df, cols, colspec, header, lines, ri, tpc, tret,
    \* main, one run
    args, inDir, files, fi, mdf, tabular, caption, label, tex,
    outDir, stdout, written, pc, error

escVars == <<ex, es, ek, epc, eret>>
tabVars == <<df, cols, colspec, header, lines, ri, tpc, tret>>
mainVars == <<args, inDir, files, fi, mdf, tabular, caption, label, tex,
              outDir, stdout, written, pc, error>>
vars == <<escVars, tabVars, mainVars>>

----------------------------------------------------------------------------
(* Bounds of the model.                                                    *)

\* longest string handed to esc on its own
MaxLen == 3
\* most columns and most rows of a DataFrame handed to df_to_tabular
MaxCols == 2
MaxRows == 2
\* most files of the input directory
MaxFiles == 3

----------------------------------------------------------------------------
(* Characters and strings.                                                 *)

BS == "\\"
NL == "\n"

\* the characters esc replaces, in the order the code names them
Special == {"&", "%", "_", "#", "$", "{", "}", "^", "~"}

\* the characters of the strings esc is tried on
Alphabet == Special \cup {BS, "a"}

StringsUpTo(n) == UNION {[1..k -> Alphabet] : k \in 0..n}

RECURSIVE join(_, _)
\* sep.join(ss)
join(sep, ss) ==
    IF ss = <<>> THEN <<>>
    ELSE IF Len(ss) = 1 THEN ss[1]
    ELSE ss[1] \o sep \o join(sep, Tail(ss))

RECURSIVE Repeat(_, _)
\* s * n: Python gives the empty string for n <= 0
Repeat(s, n) == IF n <= 0 THEN <<>> ELSE s \o Repeat(s, n - 1)

RECURSIVE replace(_, _, _)
\* s.replace(old, new) for a one-character old
replace(s, old, new) ==
    IF s = <<>> THEN <<>>
    ELSE (IF Head(s) = old THEN new ELSE <<Head(s)>>) \o replace(Tail(s), old, new)

----------------------------------------------------------------------------
(* Cell values and their str().                                            *)

StrCell(s) == [kind |-> "str", s |-> s]
NaN == [kind |-> "nan"]
IntCell(n) == [kind |-> "int", n |-> n]
FloatCell(m) == [kind |-> "float", m |-> m]

\* pd.isna(x)
isna(x) == x.kind = "nan"

Digit(d) == CASE d = 0 -> "0" [] d = 1 -> "1" [] d = 2 -> "2" [] d = 3 -> "3"
              [] d = 4 -> "4" [] d = 5 -> "5" [] d = 6 -> "6" [] d = 7 -> "7"
              [] d = 8 -> "8" [] d = 9 -> "9"

RECURSIVE IntToStr(_)
\* str(n) for an integer n >= 0
IntToStr(n) == IF n < 10 THEN <<Digit(n)>> ELSE IntToStr(n \div 10) \o <<Digit(n % 10)>>

RECURSIVE FracDigits(_, _)
\* the k decimal digits of f, zero padded on the left
FracDigits(f, k) == IF k = 0 THEN <<>> ELSE FracDigits(f \div 10, k - 1) \o <<Digit(f % 10)>>

RECURSIVE StripZeros(_)
\* the fraction's trailing zeros dropped, one digit kept
StripZeros(ds) ==
    IF Len(ds) > 1 /\ ds[Len(ds)] = "0" THEN StripZeros(SubSeq(ds, 1, Len(ds) - 1)) ELSE ds

\* str(x) of a float: the shortest decimal that reads back as x.  Python
\* writes it with an exponent when the value is below 0.0001 (m in 1..9:
\* "1e-05" .. "9e-05") and positionally from there up to 10^16, which is
\* beyond every m an integer of the model can hold
FloatToStr(m) ==
    IF 1 <= m /\ m <= 9
    THEN <<Digit(m), "e", "-", "0", "5">>
    ELSE IntToStr(m \div 100000) \o <<".">> \o StripZeros(FracDigits(m % 100000, 5))

\* str(x)
str(x) ==
    CASE x.kind = "str" -> x.s
      [] x.kind = "int" -> IntToStr(x.n)
      [] x.kind = "float" -> FloatToStr(x.m)

----------------------------------------------------------------------------
(* esc: the nine chained replacements.                                     *)

\* a variant that replaces ^ and ~ before the braces
EscChainCaretFirst ==
    << <<"&", <<BS, "&">> >>, <<"%", <<BS, "%">> >>, <<"_", <<BS, "_">> >>,
       <<"#", <<BS, "#">> >>, <<"$", <<BS, "$">> >>,
       <<"^", <<BS, "^", "{", "}">> >>, <<"~", <<BS, "~", "{", "}">> >>,
       <<"{", <<BS, "{">> >>, <<"}", <<BS, "}">> >> >>

\* the replacements of lines 16 and 17, in the order they are chained
EscChain ==
    << <<"&", <<BS, "&">> >>, <<"%", <<BS, "%">> >>, <<"_", <<BS, "_">> >>,
       <<"#", <<BS, "#">> >>, <<"$", <<BS, "$">> >>,
       <<"{", <<BS, "{">> >>, <<"}", <<BS, "}">> >>,
       <<"^", <<BS, "^", "{", "}">> >>, <<"~", <<BS, "~", "{", "}">> >> >>

RECURSIVE ApplyChain(_, _)
\* the replacements of chain applied to s, first to last
ApplyChain(s, chain) ==
    IF chain = <<>> THEN s
    ELSE ApplyChain(replace(s, chain[1][1], chain[1][2]), Tail(chain))

\* esc(x)
esc(x) == IF isna(x) THEN <<>> ELSE ApplyChain(str(x), EscChain)

----------------------------------------------------------------------------
(* The inputs the calls are tried on.                                      *)

\* the numeric cells: 3, 12, and 0.00003, 0.15, 0.12346, 2.00002, 3.0
IntCells == {IntCell(3), IntCell(12)}
FloatCells ==
    {FloatCell(3), FloatCell(15000), FloatCell(12346), FloatCell(200002), FloatCell(300000)}

\* the values esc is called on
EscInputs == {StrCell(s) : s \in StringsUpTo(MaxLen)} \cup {NaN} \cup IntCells \cup FloatCells

EscIdle == ex = NaN /\ es = <<>> /\ ek = 0 /\ epc = "idle" /\ eret = <<>>

----------------------------------------------------------------------------
(* esc, statement by statement.                                            *)

\* lines 13-14: a missing value renders as the empty string
EscIsNa ==
    /\ epc = "start"
    /\ isna(ex)
    /\ eret' = <<>>
    /\ epc' = "done"
    /\ UNCHANGED <<ex, es, ek>>
    /\ UNCHANGED <<tabVars, mainVars>>

\* line 15: s = str(x)
EscStr ==
    /\ epc = "start"
    /\ ~isna(ex)
    /\ es' = str(ex)
    /\ epc' = "replace"
    /\ UNCHANGED <<ex, ek, eret>>
    /\ UNCHANGED <<tabVars, mainVars>>

\* lines 16-17: the next replacement of the chain, on the whole string
EscReplace ==
    /\ epc = "replace"
    /\ ek < Len(EscChain)
    /\ es' = replace(es, EscChain[ek + 1][1], EscChain[ek + 1][2])
    /\ ek' = ek + 1
    /\ UNCHANGED <<ex, epc, eret>>
    /\ UNCHANGED <<tabVars, mainVars>>

\* line 18: return s
EscReturn ==
    /\ epc = "replace"
    /\ ek = Len(EscChain)
    /\ eret' = es
    /\ epc' = "done"
    /\ UNCHANGED <<ex, es, ek>>
    /\ UNCHANGED <<tabVars, mainVars>>

EscNext == EscIsNa \/ EscStr \/ EscReplace \/ EscReturn

----------------------------------------------------------------------------
(* DataFrames.  A frame is [cols |-> <columns>, n |-> number of rows]; a   *)
(* column is [name |-> <chars>, dtype |-> "object" | "int64" | "float64",  *)
(* vals |-> <n cells>].                                                    *)

Dtypes == {"object", "int64", "float64"}

\* pd.api.types.is_numeric_dtype
is_numeric_dtype(dtype) == dtype \in {"int64", "float64"}

\* the cells a column of each dtype is tried with
CellsOf(dtype) ==
    CASE dtype = "object" -> {StrCell(<<"A", "&", "B">>), NaN}
      [] dtype = "int64" -> IntCells
      [] dtype = "float64" -> {FloatCell(12346), NaN}

\* the name of the i-th column of a frame
ColName(i) ==
    CASE i = 1 -> <<"a", "_", "b">>
      [] i = 2 -> <<"x", "%">>
      [] OTHER -> <<"c">> \o IntToStr(i)

ColumnsAt(i, n) ==
    UNION {{[name |-> ColName(i), dtype |-> d, vals |-> v] : v \in [1..n -> CellsOf(d)]}
           : d \in Dtypes}

RECURSIVE ColSeqs(_, _)
\* the sequences of k columns of n rows
ColSeqs(k, n) ==
    IF k = 0 THEN {<<>>}
    ELSE {Append(cs, c) : cs \in ColSeqs(k - 1, n), c \in ColumnsAt(k, n)}

\* the frames df_to_tabular is called on
Frames ==
    UNION {{[cols |-> cs, n |-> n] : cs \in ColSeqs(k, n)}
           : k \in 0..MaxCols, n \in 0..MaxRows}

\* df.values: one dtype for the whole frame; int64 beside float64 becomes float64
UpcastToFloat(d) ==
    /\ \A i \in 1..Len(d.cols) : is_numeric_dtype(d.cols[i].dtype)
    /\ \E i \in 1..Len(d.cols) : d.cols[i].dtype = "float64"

\* row.values of the i-th row yielded by df.iterrows()
RowValues(d, i) ==
    [j \in 1..Len(d.cols) |->
        LET x == d.cols[j].vals[i]
        IN  IF UpcastToFloat(d) /\ x.kind = "int" THEN FloatCell(x.n * 100000) ELSE x]

\* Series.round(4) of a float: m is in units of 10^-5.  A decimal tie (last
\* digit 5) is decided by the binary value of the double and is left out.
Round4(m) ==
    CASE m % 10 < 5 -> (m \div 10) * 10
      [] m % 10 > 5 -> (m \div 10 + 1) * 10

RoundCell(x) == IF x.kind = "float" THEN FloatCell(Round4(x.m)) ELSE x

\* lines 50-52: every numeric column rounded to four decimals
RoundFrame(d) ==
    [d EXCEPT !.cols =
        [j \in 1..Len(d.cols) |->
            IF is_numeric_dtype(d.cols[j].dtype)
            THEN [d.cols[j] EXCEPT !.vals = [i \in 1..d.n |-> RoundCell(d.cols[j].vals[i])]]
            ELSE d.cols[j]]]

----------------------------------------------------------------------------
(* df_to_tabular.                                                          *)

LitBeginTabular == <<BS, "b", "e", "g", "i", "n", "{", "t", "a", "b", "u", "l", "a", "r", "}", "{">>
LitToprule == <<BS, "t", "o", "p", "r", "u", "l", "e">>
LitMidrule == <<BS, "m", "i", "d", "r", "u", "l", "e">>
LitBottomrule == <<BS, "b", "o", "t", "t", "o", "m", "r", "u", "l", "e">>
LitEndTabular == <<BS, "e", "n", "d", "{", "t", "a", "b", "u", "l", "a", "r", "}">>
LitAmp == <<" ", "&", " ">>

\* " \\" in the Python source: a space and one backslash
RowEnd == <<" ", BS>>

\* line 19: cols = [esc(c) for c in df.columns]
Cols(d) == [j \in 1..Len(d.cols) |-> esc(StrCell(d.cols[j].name))]

\* a column spec with one r per column
ColspecPerCol(cs) == <<"l">> \o Repeat(<<"r">>, Len(cs))

\* line 20: colspec = "l" + "r"*(len(cols)-1)
Colspec(cs) == <<"l">> \o Repeat(<<"r">>, Len(cs) - 1)

\* line 21: header = " & ".join(cols) + " \\"
Header(cs) == join(LitAmp, cs) \o RowEnd

\* first lines with the middle rule above the header
OpenLinesRuleFirst(spec, hdr) ==
    <<LitBeginTabular \o spec \o <<"}">>, LitToprule, LitMidrule, hdr>>

\* line 22: the first four lines
OpenLines(spec, hdr) ==
    <<LitBeginTabular \o spec \o <<"}">>, LitToprule, hdr, LitMidrule>>

\* line 24: line = " & ".join(esc(x) for x in row.values) + " \\"
RowLine(vs) == join(LitAmp, [j \in 1..Len(vs) |-> esc(vs[j])]) \o RowEnd

\* line 26: the last two lines
CloseLines == <<LitBottomrule, LitEndTabular>>

\* df_to_tabular(df), as one function
df_to_tabular(d) ==
    join(<<NL>>,
         OpenLines(Colspec(Cols(d)), Header(Cols(d)))
         \o [i \in 1..d.n |-> RowLine(RowValues(d, i))]
         \o CloseLines)

TabIdle ==
    /\ df = [cols |-> <<>>, n |-> 0] /\ cols = <<>> /\ colspec = <<>> /\ header = <<>>
    /\ lines = <<>> /\ ri = 0 /\ tpc = "idle" /\ tret = <<>>

(* df_to_tabular, statement by statement.                                  *)

\* line 19
TabCols ==
    /\ tpc = "cols"
    /\ cols' = Cols(df)
    /\ tpc' = "colspec"
    /\ UNCHANGED <<df, colspec, header, lines, ri, tret>>
    /\ UNCHANGED <<escVars, mainVars>>

\* line 20
TabColspec ==
    /\ tpc = "colspec"
    /\ colspec' = Colspec(cols)
    /\ tpc' = "header"
    /\ UNCHANGED <<df, cols, header, lines, ri, tret>>
    /\ UNCHANGED <<escVars, mainVars>>

\* line 21
TabHeader ==
    /\ tpc = "header"
    /\ header' = Header(cols)
    /\ tpc' = "open"
    /\ UNCHANGED <<df, cols, colspec, lines, ri, tret>>
    /\ UNCHANGED <<escVars, mainVars>>

\* line 22
TabOpen ==
    /\ tpc = "open"
    /\ lines' = OpenLines(colspec, header)
    /\ tpc' = "rows"
    /\ UNCHANGED <<df, cols, colspec, header, ri, tret>>
    /\ UNCHANGED <<escVars, mainVars>>

\* a loop that puts each new row first among the data rows
TabRowFront ==
    /\ tpc = "rows"
    /\ ri < df.n
    /\ lines' = SubSeq(lines, 1, 4) \o <<RowLine(RowValues(df, ri + 1))>>
                   \o SubSeq(lines, 5, Len(lines))
    /\ ri' = ri + 1
    /\ UNCHANGED <<df, cols, colspec, header, tpc, tret>>
    /\ UNCHANGED <<escVars, mainVars>>

\* lines 23-25: one iteration of the loop over df.iterrows()
TabRow ==
    /\ tpc = "rows"
    /\ ri < df.n
    /\ lines' = Append(lines, RowLine(RowValues(df, ri + 1)))
    /\ ri' = ri + 1
    /\ UNCHANGED <<df, cols, colspec, header, tpc, tret>>
    /\ UNCHANGED <<escVars, mainVars>>

\* line 26, when the loop is over
TabClose ==
    /\ tpc = "rows"
    /\ ri = df.n
    /\ lines' = lines \o CloseLines
    /\ tpc' = "join"
    /\ UNCHANGED <<df, cols, colspec, header, ri, tret>>
    /\ UNCHANGED <<escVars, mainVars>>

\* line 27: return "\n".join(lines)
TabReturn ==
    /\ tpc = "join"
    /\ tret' = join(<<NL>>, lines)
    /\ tpc' = "done"
    /\ UNCHANGED <<df, cols, colspec, header, lines, ri>>
    /\ UNCHANGED <<escVars, mainVars>>

TabNext == TabCols \/ TabColspec \/ TabHeader \/ TabOpen \/ TabRow \/ TabClose \/ TabReturn

----------------------------------------------------------------------------
(* Paths: file names, glob patterns, the order of sorted().                *)

\* ord(c) of the characters of the file names
Ord(c) ==
    CASE c = "." -> 46 [] c = "_" -> 95 [] c = "a" -> 97 [] c = "b" -> 98
      [] c = "c" -> 99 [] c = "d" -> 100 [] c = "l" -> 108 [] c = "r" -> 114
      [] c = "s" -> 115 [] c = "t" -> 116 [] c = "v" -> 118 [] c = "x" -> 120

RECURSIVE StrLess(_, _)
\* s < t for two Python strings
StrLess(s, t) ==
    IF t = <<>> THEN FALSE
    ELSE IF s = <<>> THEN TRUE
    ELSE IF Head(s) = Head(t) THEN StrLess(Tail(s), Tail(t))
    ELSE Ord(Head(s)) < Ord(Head(t))

RECURSIVE sorted(_)
\* sorted(S): the paths of one directory, ascending by name
sorted(S) ==
    IF S = {} THEN <<>>
    ELSE LET m == CHOOSE x \in S : \A y \in S \ {x} : StrLess(x, y)
         IN  <<m>> \o sorted(S \ {m})

RECURSIVE Match(_, _)
\* whether a name matches a glob pattern of literal characters and *
Match(p, s) ==
    IF p = <<>> THEN s = <<>>
    ELSE IF Head(p) = "*" THEN Match(Tail(p), s) \/ (s /= <<>> /\ Match(p, Tail(s)))
    ELSE s /= <<>> /\ Head(s) = Head(p) /\ Match(Tail(p), Tail(s))

\* in_dir.glob(pattern): the entries of the directory the pattern matches
glob(dir, pattern) == {f \in DOMAIN dir : Match(pattern, f)}

\* the place of the last "." of a name, 0 when it has none
LastDot(name) ==
    IF \E i \in 1..Len(name) : name[i] = "."
    THEN CHOOSE i \in 1..Len(name) :
            name[i] = "." /\ \A j \in (i + 1)..Len(name) : name[j] /= "."
    ELSE 0

\* Path.stem: the name without its last suffix; a leading or trailing dot is
\* no suffix
Stem(name) ==
    IF 1 < LastDot(name) /\ LastDot(name) < Len(name)
    THEN SubSeq(name, 1, LastDot(name) - 1)
    ELSE name

LitTex == <<".", "t", "e", "x">>

\* line 59: out_dir / f"{f.stem}.tex"
OutName(name) == Stem(name) \o LitTex

----------------------------------------------------------------------------
(* The inputs of a run of main.                                            *)

FileNames == {<<"a", ".", "c", "s", "v">>, <<"a", ".", "t", "x", "t">>, <<"b", ".", "c", "s", "v">>, <<"d", "l", "r", "_", "x", ".", "c", "s", "v">>}

Unparseable == [cols |-> <<>>, n |-> 0 - 1]

\* what pd.read_csv returns for the files that parse: the table
\* name,score / A&B,95.12346 / C_D,3 and the one-cell table n / 3
ParsedFrames ==
    { [cols |-> << [name |-> <<"n", "a", "m", "e">>, dtype |-> "object",
                    vals |-> <<StrCell(<<"A", "&", "B">>), StrCell(<<"C", "_", "D">>)>>],
                   [name |-> <<"s", "c", "o", "r", "e">>, dtype |-> "float64",
                    vals |-> <<FloatCell(9512346), FloatCell(300000)>>] >>,
       n |-> 2],
      [cols |-> << [name |-> <<"n">>, dtype |-> "int64", vals |-> <<IntCell(3)>>] >>,
       n |-> 1] }

\* the input directories: up to MaxFiles files, each unparseable or a table
InDirs ==
    UNION {[S -> ParsedFrames \cup {Unparseable}]
           : S \in {T \in SUBSET FileNames : Cardinality(T) <= MaxFiles}}

Patterns == {<<"*", ".", "c", "s", "v">>, <<"a", ".", "*">>, <<"d", "l", "r", "_", "*", ".", "c", "s", "v">>}

\* --caption and --label: the default "" or a text
Captions == {<<>>, <<"R", "e", "s", "u", "l", "t", "s">>}
Labels == {<<>>, <<"t", "a", "b", ":", "r", "e", "s">>}

MainIdle ==
    /\ args = [caption |-> <<>>, label |-> <<>>, pattern |-> <<>>]
    /\ inDir = <<>> /\ files = <<>> /\ fi = 0
    /\ mdf = [cols |-> <<>>, n |-> 0] /\ tabular = <<>> /\ caption = <<>> /\ label = <<>>
    /\ tex = <<>> /\ outDir = <<>> /\ stdout = <<>> /\ written = <<>> /\ pc = "idle"
    /\ error = "none"

----------------------------------------------------------------------------
(* main.                                                                   *)

LitAuto == <<"A", "u", "t", "o", "-", "g", "e", "n", "e", "r", "a", "t", "e", "d", " ", "t", "a", "b", "l", "e", " ", "f", "r", "o", "m", " ">>
LitTab == <<"t", "a", "b", ":">>
LitCaption == <<BS, "c", "a", "p", "t", "i", "o", "n", "{">>
LitLabel == <<BS, "l", "a", "b", "e", "l", "{">>

\* line 55: args.caption or f"Auto-generated table from {f.name}"
Caption(a, name) == IF a.caption /= <<>> THEN a.caption ELSE LitAuto \o name

\* line 56: args.label or f"tab:{f.stem}"
Label(a, name) == IF a.label /= <<>> THEN a.label ELSE LitTab \o Stem(name)

\* the names line 58 can read: the locals of main bound by then, the names
\* the module binds (lines 6-8, 10, 29) and no builtin of that name
NamesInScope ==
    {"ap", "args", "in_dir", "out_dir", "files", "f", "df", "c", "tabular", "caption",
     "label", "argparse", "Path", "pd", "df_to_tabular", "main"}

\* line 42: files = sorted(in_dir.glob(args.pattern))
MainGlob ==
    /\ pc = "glob"
    /\ files' = sorted(glob(inDir, args.pattern))
    /\ pc' = "check"
    /\ UNCHANGED <<error, args, inDir, fi, mdf, tabular, caption, label, tex, outDir, stdout, written>>
    /\ UNCHANGED <<escVars, tabVars>>

\* lines 43-45: no file matched: one warning, and return
MainNoFiles ==
    /\ pc = "check"
    /\ files = <<>>
    /\ stdout' = Append(stdout, [kind |-> "WARN", pattern |-> args.pattern])
    /\ pc' = "done"
    /\ UNCHANGED <<error, args, inDir, files, fi, mdf, tabular, caption, label, tex, outDir, written>>
    /\ UNCHANGED <<escVars, tabVars>>

\* line 47: the loop takes the next file
MainLoop ==
    /\ pc \in {"check", "loop"}
    /\ fi < Len(files)
    /\ fi' = fi + 1
    /\ pc' = "read"
    /\ UNCHANGED <<error, args, inDir, files, mdf, tabular, caption, label, tex, outDir, stdout, written>>
    /\ UNCHANGED <<escVars, tabVars>>

\* line 47: the loop is over
MainEnd ==
    /\ pc = "loop"
    /\ fi = Len(files)
    /\ pc' = "done"
    /\ UNCHANGED <<error, args, inDir, files, fi, mdf, tabular, caption, label, tex, outDir, stdout, written>>
    /\ UNCHANGED <<escVars, tabVars>>

\* line 48: df = pd.read_csv(f)
ReadCsvOk ==
    /\ pc = "read"
    /\ inDir[files[fi]] /= Unparseable
    /\ mdf' = inDir[files[fi]]
    /\ pc' = "round"
    /\ UNCHANGED <<error, args, inDir, files, fi, tabular, caption, label, tex, outDir, stdout, written>>
    /\ UNCHANGED <<escVars, tabVars>>

\* line 48: pd.read_csv raises; nothing catches it, the run ends there
ReadCsvFail ==
    /\ pc = "read"
    /\ inDir[files[fi]] = Unparseable
    /\ pc' = "aborted"
    /\ error' = "read_csv"
    /\ UNCHANGED <<args, inDir, files, fi, mdf, tabular, caption, label, tex, outDir, stdout, written>>
    /\ UNCHANGED <<escVars, tabVars>>

\* lines 50-52
MainRound ==
    /\ pc = "round"
    /\ mdf' = RoundFrame(mdf)
    /\ pc' = "tabular"
    /\ UNCHANGED <<error, args, inDir, files, fi, tabular, caption, label, tex, outDir, stdout, written>>
    /\ UNCHANGED <<escVars, tabVars>>

\* line 54
MainTabular ==
    /\ pc = "tabular"
    /\ tabular' = df_to_tabular(mdf)
    /\ pc' = "caption"
    /\ UNCHANGED <<error, args, inDir, files, fi, mdf, caption, label, tex, outDir, stdout, written>>
    /\ UNCHANGED <<escVars, tabVars>>

\* lines 55-56
MainCaptionLabel ==
    /\ pc = "caption"
    /\ caption' = Caption(args, files[fi])
    /\ label' = Label(args, files[fi])
    /\ pc' = "tex"
    /\ UNCHANGED <<error, args, inDir, files, fi, mdf, tabular, tex, outDir, stdout, written>>
    /\ UNCHANGED <<escVars, tabVars>>

\* line 58: the last f-string, f"\\label{{{label}}}\n\\end{table}\n", holds the
\* replacement field {table}; table is no name of main or of the module, so
\* evaluating it raises NameError: tex is never bound and the run ends there
MainTex ==
    /\ pc = "tex"
    /\ "table" \notin NamesInScope
    /\ pc' = "aborted"
    /\ error' = "NameError"
    /\ UNCHANGED <<args, inDir, files, fi, mdf, tabular, caption, label, tex, outDir, stdout, written>>
    /\ UNCHANGED <<escVars, tabVars>>

\* lines 59-60: out_path.write_text(tex) creates the file or replaces its text
MainWrite ==
    /\ pc = "write"
    /\ LET out_path == OutName(files[fi])
       IN  outDir' = [q \in DOMAIN outDir \cup {out_path} |->
                        IF q = out_path THEN tex ELSE outDir[q]]
    /\ written' = Append(written, files[fi])
    /\ pc' = "print"
    /\ UNCHANGED <<error, args, inDir, files, fi, mdf, tabular, caption, label, tex, stdout>>
    /\ UNCHANGED <<escVars, tabVars>>

\* line 61: print("[OK]", out_path)
MainPrint ==
    /\ pc = "print"
    /\ stdout' = Append(stdout, [kind |-> "OK", path |-> OutName(files[fi])])
    /\ pc' = "loop"
    /\ UNCHANGED <<error, args, inDir, files, fi, mdf, tabular, caption, label, tex, outDir, written>>
    /\ UNCHANGED <<escVars, tabVars>>

\* The steps of a run.  MainTex raises for every file, so the statements
\* after line 58 (MainWrite, MainPrint) and the end of the loop (MainEnd) are
\* never reached: they are no steps of a run of this program.
MainNext ==
    \/ MainGlob \/ MainNoFiles \/ MainLoop \/ ReadCsvOk \/ ReadCsvFail
    \/ MainRound \/ MainTabular \/ MainCaptionLabel \/ MainTex

----------------------------------------------------------------------------
(* The specifications: one call of esc, one call of df_to_tabular, one run *)
(* of main.                                                                *)

EscInit ==
    /\ ex \in EscInputs /\ es = <<>> /\ ek = 0 /\ epc = "start" /\ eret = <<>>
    /\ TabIdle /\ MainIdle

SpecEsc == EscInit /\ [][EscNext]_vars

TabInit ==
    /\ df \in Frames /\ cols = <<>> /\ colspec = <<>> /\ header = <<>>
    /\ lines = <<>> /\ ri = 0 /\ tpc = "cols" /\ tret = <<>>
    /\ EscIdle /\ MainIdle

SpecTab == TabInit /\ [][TabNext]_vars

Init ==
    /\ args \in [caption : Captions, label : Labels, pattern : Patterns]
    /\ inDir \in InDirs
    /\ files = <<>> /\ fi = 0
    /\ mdf = [cols |-> <<>>, n |-> 0] /\ tabular = <<>> /\ caption = <<>> /\ label = <<>>
    /\ tex = <<>> /\ outDir = <<>> /\ stdout = <<>> /\ written = <<>> /\ pc = "glob"
    /\ error = "none"
    /\ EscIdle /\ TabIdle

Next == MainNext

Spec == Init /\ [][Next]_vars

----------------------------------------------------------------------------
(* What the properties are stated with.                                    *)

RECURSIVE Concat(_)
\* the concatenation of a sequence of strings
Concat(ss) == IF ss = <<>> THEN <<>> ELSE Head(ss) \o Concat(Tail(ss))

\* a row end of two backslashes
RowEndDouble == <<" ", BS, BS>>

\* the escape of one character, as the specification lists them
SinglePassChar(c) ==
    CASE c \in {"&", "%", "_", "#", "$", "{", "}"} -> <<BS, c>>
      [] c \in {"^", "~"} -> <<BS, c, "{", "}">>
      [] OTHER -> <<c>>

\* one left-to-right pass that maps each character on its own
SinglePass(s) == Concat([i \in 1..Len(s) |-> SinglePassChar(s[i])])

RECURSIVE EscapedFrom(_, _)
\* whether LaTeX, reading t from place i, meets no special character outside
\* an escape: a backslash takes the character after it (and the {} of \^{}
\* and \~{}), so the second backslash of \\ escapes nothing
EscapedFrom(t, i) ==
    IF i > Len(t) THEN TRUE
    ELSE IF t[i] = BS
         THEN IF i + 3 <= Len(t) /\ t[i + 1] \in {"^", "~"} /\ t[i + 2] = "{" /\ t[i + 3] = "}"
              THEN EscapedFrom(t, i + 4)
              ELSE EscapedFrom(t, i + 2)
         ELSE t[i] \notin Special /\ EscapedFrom(t, i + 1)

AllEscaped(t) == EscapedFrom(t, 1)

RECURSIVE SplitLines(_)
\* text.split("\n")
SplitLines(text) ==
    IF \A i \in 1..Len(text) : text[i] /= NL THEN <<text>>
    ELSE LET k == CHOOSE i \in 1..Len(text) :
                    text[i] = NL /\ \A j \in 1..(i - 1) : text[j] /= NL
         IN  <<SubSeq(text, 1, k - 1)>> \o SplitLines(SubSeq(text, k + 1, Len(text)))

\* the places of a sequence that hold x
Places(ls, x) == {i \in 1..Len(ls) : ls[i] = x}

\* whether s starts with prefix
StartsWith(s, prefix) == Len(s) >= Len(prefix) /\ SubSeq(s, 1, Len(prefix)) = prefix

\* the escaped cells of the i-th row of a frame, and the escaped column names
EscapedRow(d, i) == [j \in 1..Len(d.cols) |-> esc(RowValues(d, i)[j])]
EscapedNames(d) == [j \in 1..Len(d.cols) |-> esc(StrCell(d.cols[j].name))]

----------------------------------------------------------------------------
(* esc (SpecEsc).                                                          *)

\* C1: for every string s, esc(s) holds no unescaped occurrence of one of
\* the nine special characters, also when s holds backslashes.
C1_EscapingComplete == (epc = "done" /\ ex.kind = "str") => AllEscaped(eret)

\* C2: for every string s, the nine chained replacements give what one
\* left-to-right pass gives that maps each character on its own, and
\* esc(s) = s when s holds none of the nine characters.
C2_SinglePassEquivalence ==
    (epc = "done" /\ ex.kind = "str") =>
        /\ eret = SinglePass(ex.s)
        /\ eret = esc(ex)
        /\ (\A i \in 1..Len(ex.s) : ex.s[i] \notin Special) => eret = ex.s

\* a string with a caret, a brace and a backslash has been escaped
C2_Witness ==
    /\ epc = "done" /\ ex.kind = "str"
    /\ \E i, j, k \in 1..Len(ex.s) : ex.s[i] = "^" /\ ex.s[j] = "{" /\ ex.s[k] = BS
    /\ Len(eret) = 7

----------------------------------------------------------------------------
(* df_to_tabular (SpecTab).                                                *)

\* C3: the header row and every data row are the escaped cells in column
\* order joined by " & " and end with the row-end marker of two backslashes;
\* the header row is followed by the \midrule line.
C3_RowEndMarker ==
    tpc = "done" =>
        /\ lines[3] = join(LitAmp, EscapedNames(df)) \o RowEndDouble
        /\ lines[4] = LitMidrule
        /\ \A i \in 1..df.n : lines[4 + i] = join(LitAmp, EscapedRow(df, i)) \o RowEndDouble

\* C5: exactly n data-row lines stand between the \midrule line and the
\* \bottomrule line, and the i-th of them is the rendering of the i-th row.
C5_RowCountAndOrder ==
    /\ tpc = "rows" => Len(lines) = 4 + ri
    /\ tpc = "done" =>
         LET ls == SplitLines(tret)
         IN  /\ Cardinality(Places(ls, LitMidrule)) = 1
             /\ Cardinality(Places(ls, LitBottomrule)) = 1
             /\ LET m == CHOOSE i \in Places(ls, LitMidrule) : TRUE
                    b == CHOOSE i \in Places(ls, LitBottomrule) : TRUE
                IN  /\ b - m - 1 = df.n
                    /\ \A i \in 1..df.n :
                          ls[m + i] = join(LitAmp, EscapedRow(df, i)) \o RowEnd

\* a frame of two different rows has been rendered
C5_Witness ==
    /\ tpc = "done" /\ df.n = 2 /\ Len(df.cols) >= 1
    /\ EscapedRow(df, 1) /= EscapedRow(df, 2)
    /\ Len(SplitLines(tret)) = 8

\* C6: the lines are, in this order, the open-tabular line with the column
\* spec, \toprule, the header row, \midrule, the data rows, \bottomrule and
\* \end{tabular}, with exactly one header row and one rule of each kind.
C6_FixedStructure ==
    tpc = "done" =>
        LET ls == SplitLines(tret)
            hdr == join(LitAmp, EscapedNames(df)) \o RowEnd
        IN  /\ ls = lines
            /\ Len(ls) = df.n + 6
            /\ ls[1] = LitBeginTabular \o colspec \o <<"}">>
            /\ ls[2] = LitToprule
            /\ ls[3] = hdr
            /\ ls[4] = LitMidrule
            /\ \A i \in 5..(Len(ls) - 2) : ls[i] \notin {LitToprule, LitMidrule, LitBottomrule}
            /\ ls[Len(ls) - 1] = LitBottomrule
            /\ ls[Len(ls)] = LitEndTabular
            /\ Cardinality(Places(ls, LitToprule)) = 1
            /\ Cardinality(Places(ls, LitMidrule)) = 1
            /\ Cardinality(Places(ls, LitBottomrule)) = 1
            /\ Cardinality({i \in 1..Len(ls) : StartsWith(ls[i], LitBeginTabular)}) = 1
            /\ Cardinality(Places(ls, LitEndTabular)) = 1
            /\ tret = df_to_tabular(df)

\* a frame of two columns and one row has been rendered
C6_Witness ==
    tpc = "done" /\ Len(df.cols) = 2 /\ df.n = 1 /\ Len(SplitLines(tret)) = 7

\* C7, as claimed: the column spec is l followed by K-1 times r and its
\* length is K, for every K, the table of no column included.
C7_ColspecLengthK ==
    tpc \notin {"cols", "colspec"} =>
        /\ colspec = <<"l">> \o Repeat(<<"r">>, Len(df.cols) - 1)
        /\ Len(colspec) = Len(df.cols)

\* C7, amended: for K >= 1 columns the column spec is l followed by K-1
\* times r, of length K; for the table of no column it is "l", of length 1.
C7_ColspecAmended ==
    tpc \notin {"cols", "colspec"} =>
        /\ Len(colspec) = (IF Len(df.cols) = 0 THEN 1 ELSE Len(df.cols))
        /\ colspec[1] = "l"
        /\ \A i \in 2..Len(colspec) : colspec[i] = "r"
        /\ tpc = "done" => StartsWith(tret, LitBeginTabular \o colspec \o <<"}", NL>>)

\* the column spec of a frame of two columns has been computed
C7_Witness == tpc = "done" /\ Len(df.cols) = 2 /\ colspec = <<"l", "r">>

----------------------------------------------------------------------------
(* main (Spec).                                                            *)

LitBeginTableLine == <<BS, "b", "e", "g", "i", "n", "{", "t", "a", "b", "l", "e", "}", "[", "t", "]">>
LitCentering == <<BS, "c", "e", "n", "t", "e", "r", "i", "n", "g">>
LitEndTableLine == <<BS, "e", "n", "d", "{", "t", "a", "b", "l", "e", "}">>

\* line 58 has been executed for the current file
Line58Done == pc = "write" \/ (pc = "aborted" /\ error = "NameError")

\* the run is over
Ended == pc \in {"done", "aborted"}

\* the place of the first matched file that does not parse, Len(files) + 1
\* when all parse
FirstBad ==
    IF \E i \in 1..Len(files) : inDir[files[i]] = Unparseable
    THEN CHOOSE i \in 1..Len(files) :
            inDir[files[i]] = Unparseable
            /\ \A j \in 1..(i - 1) : inDir[files[j]] /= Unparseable
    ELSE Len(files) + 1

\* the caption and the label a file is to get
ExpectedCaption(f) == IF args.caption /= <<>> THEN args.caption ELSE LitAuto \o f
ExpectedLabel(f) == IF args.label /= <<>> THEN args.label ELSE LitTab \o Stem(f)

\* the table float of a file: centering, tabular body, caption, label
ExpectedDocument(f) ==
    LitBeginTableLine \o <<NL>> \o LitCentering \o <<NL>>
    \o df_to_tabular(RoundFrame(inDir[f])) \o <<NL>>
    \o LitCaption \o ExpectedCaption(f) \o <<"}", NL>>
    \o LitLabel \o ExpectedLabel(f) \o <<"}", NL>>
    \o LitEndTableLine \o <<NL>>

\* C4: the document built for a file has balanced, properly nested table
\* and tabular environments and no unescaped special character in its
\* header, data, caption or label text.
C4_WholeDocumentEscaped ==
    Line58Done =>
        LET ls == SplitLines(tex)
            bt == Places(ls, LitBeginTableLine)
            et == Places(ls, LitEndTableLine)
            bb == {i \in 1..Len(ls) : StartsWith(ls[i], LitBeginTabular)}
            eb == Places(ls, LitEndTabular)
        IN  /\ AllEscaped(caption)
            /\ AllEscaped(label)
            /\ \A j \in 1..Len(mdf.cols) : AllEscaped(EscapedNames(mdf)[j])
            /\ \A i \in 1..mdf.n : \A j \in 1..Len(mdf.cols) : AllEscaped(EscapedRow(mdf, i)[j])
            /\ Cardinality(bt) = 1 /\ Cardinality(et) = 1
            /\ Cardinality(bb) = 1 /\ Cardinality(eb) = 1
            /\ \A a \in bt, b \in bb, c \in eb, d \in et : a < b /\ b < c /\ c < d

\* C8: the document of each converted file is the table float holding, in
\* this order, the centering directive, the tabular body, the caption and the
\* label; the caption is --caption when supplied and else "Auto-generated
\* table from <file name>", the label is --label when supplied and else
\* "tab:<base name without extension>", for every file of the run.
C8_CaptionLabelLayout ==
    Line58Done =>
        LET f == files[fi]
            ls == SplitLines(tex)
            n == Len(ls)
            body == SplitLines(tabular)
        IN  /\ caption = ExpectedCaption(f)
            /\ label = ExpectedLabel(f)
            /\ n = Len(body) + 6
            /\ ls[1] = LitBeginTableLine
            /\ ls[2] = LitCentering
            /\ SubSeq(ls, 3, n - 4) = body
            /\ ls[n - 3] = LitCaption \o ExpectedCaption(f) \o <<"}">>
            /\ ls[n - 2] = LitLabel \o ExpectedLabel(f) \o <<"}">>
            /\ ls[n - 1] = LitEndTableLine
            /\ ls[n] = <<>>

\* C9: after a run in which every matched file parsed, the output directory
\* holds one distinct .tex file per matched input, each holding the
\* rendering of that input: no output is overwritten by another input's.
C9_OneOutputPerInput ==
    (Ended /\ files /= <<>> /\ FirstBad = Len(files) + 1) =>
        /\ Cardinality(DOMAIN outDir) = Len(files)
        /\ \A i \in 1..Len(files) :
              /\ OutName(files[i]) \in DOMAIN outDir
              /\ outDir[OutName(files[i])] = ExpectedDocument(files[i])

\* the matched files have output names of their own (what C9 needs of line 59)
C9_DistinctOutputNames ==
    pc /= "glob" =>
        \A i, j \in 1..Len(files) : i /= j => OutName(files[i]) /= OutName(files[j])

\* the [OK] lines of the first k files
OkLines(k) == [i \in 1..k |-> [kind |-> "OK", path |-> OutName(files[i])]]

\* C10: the matched files are processed one at a time in sorted order, each
\* parsed, rounded, rendered and written before the next starts; with no
\* match there is one warning and no output and the run ends normally; the
\* run ends early only when the i-th file does not parse, and then exactly
\* the files before it are written and reported and none at or after it.
C10_SequentialAbort ==
    /\ pc /= "glob" =>
         /\ {files[i] : i \in 1..Len(files)} = glob(inDir, args.pattern)
         /\ \A i, j \in 1..Len(files) : i < j => StrLess(files[i], files[j])
    /\ (Ended /\ files = <<>>) =>
         /\ pc = "done"
         /\ stdout = <<[kind |-> "WARN", pattern |-> args.pattern]>>
         /\ DOMAIN outDir = {}
    /\ (Ended /\ files /= <<>>) =>
         /\ written = SubSeq(files, 1, FirstBad - 1)
         /\ stdout = OkLines(FirstBad - 1)
         /\ pc = "aborted" <=> FirstBad <= Len(files)
         /\ pc = "aborted" => (error = "read_csv" /\ fi = FirstBad)

\* What holds of main as it is: a run never gets past line 58.  It ends with
\* the warning when nothing matches, with the read_csv error when the first
\* matched file does not parse and with NameError otherwise; it reads no
\* file but the first, writes no file and prints no [OK] line.
MainAsItIs ==
    /\ fi <= 1 /\ DOMAIN outDir = {} /\ written = <<>> /\ tex = <<>>
    /\ \A i \in 1..Len(stdout) : stdout[i].kind = "WARN"
    /\ ~ENABLED MainWrite /\ ~ENABLED MainPrint /\ ~ENABLED MainEnd
    /\ Ended =>
         CASE files = <<>> -> pc = "done" /\ error = "none" /\ Len(stdout) = 1
           [] files /= <<>> /\ inDir[files[1]] = Unparseable ->
                  pc = "aborted" /\ error = "read_csv" /\ stdout = <<>>
           [] OTHER -> pc = "aborted" /\ error = "NameError" /\ stdout = <<>>
                       /\ caption = ExpectedCaption(files[1])
                       /\ label = ExpectedLabel(files[1])
                       /\ tabular = df_to_tabular(RoundFrame(inDir[files[1]]))

====
